---- MODULE Spec2Model ----
(***************************************************************************)
(* bitstorm.js content distribution and caching engine.                    *)
(*                                                                         *)
(* The model follows BitstormContentServer, BitstormDataStore,             *)
(* BitstormResourceRequest and BitstormEmitter.  The browser (indexedDB    *)
(* and XMLHttpRequest) is the environment: it calls the handlers the code  *)
(* installs, in the orders those APIs allow.                               *)
(***************************************************************************)
EXTENDS Integers, Sequences, FiniteSets, TLC

\* ---------------------------------------------------------------- bounds
\* GET_RESOURCE commands handled in one behaviour of the whole system.
MaxRequests == 2
\* GET_RESOURCE commands handled in one behaviour of the dispatch-only system.
MaxDispatch == 4
\* Origin records ever created (the implicit origin included).
MaxRecords == 2
\* BitstormDataStore objects ever created.
MaxStores == 2
\* deleteDataStore calls handled in one behaviour.
MaxDeletes == 1
\* progress events one transfer reports.
MaxProgress == 1
\* Registry entries ever created in one behaviour of the registry-only system.
MaxEntries == 4

\* ------------------------------------------------------------ vocabulary
\* The JavaScript value undefined, for an argument that was left out.
Undefined == "undefined"
\* Root URLs an application registers; "" is the application's own origin.
Urls == {"", "cdn"}
\* Root URLs that already end in '/'.
SlashUrls == {}
CacheNames == {"assets"}
Keys == {"x.bin"}
\* Names an emitter is asked about: the three events of a request, and the
\* property name a call without an argument ends up using.
EventNames == {"data", "error", "progress", Undefined}
\* ProgressEvent shapes: <<lengthComputable, loaded, total>>.
ProgressInfos == {<<FALSE, 0, 0>>, <<TRUE, 1, 2>>}
\* HTTP statuses a transfer ends with.
Statuses == {200, 404}
\* xhr.status of a transfer that has not ended, and of one that ended in
\* onerror.
NoStatus == -1
TransportError == 0

VARIABLES
    contentServers, \* this.contentServers: the array, as references into records
    records,        \* every origin record object ever created: [serverUrl, loadValue]
    dataStores,     \* this.dataStores: cache name -> store reference, 0 when absent
    stores,         \* every BitstormDataStore object ever created
    connQueue,      \* indexedDB's queue of open (store ref) and delete (0) requests per name
    filedata,       \* the 'filedata' object store of each database; 0 when no entry
    metadata,       \* the 'metadata' object store of each database; 0 when no entry
    requests,       \* every BitstormResourceRequest object ever created
    cmds,           \* the GET_RESOURCE commands handled so far; requestId = index
    notes,          \* per command, what the server emitted because of it
    thrown,         \* exceptions no handler caught: [cmd, at]
    cacheReady,     \* CACHE_READY messages emitted, per name
    openErrors,     \* 'error' events emitted for a failed open
    deletes,        \* deleteDataStore calls handled
    shut,           \* whether shutdown() of the content client has returned, and what existed then
    emitter,        \* an Emitter: the listener array of one event, and what an emit called
    machine,        \* a state machine object, and where its stateMachineUpdate stands
    objectList,     \* an object list
    issued,         \* ids objectListAllocate returned and objectListDelete has not taken
    retired         \* ids objectListDelete has taken

\* The content system, and the core library of bitstorm.js.
content == <<contentServers, records, dataStores, stores, connQueue, filedata,
             metadata, requests, cmds, notes, thrown, cacheReady, openErrors, deletes>>

library == <<emitter, machine, objectList, issued, retired>>

vars == <<contentServers, records, dataStores, stores, connQueue, filedata,
          metadata, requests, cmds, notes, thrown, cacheReady, openErrors, deletes,
          shut, emitter, machine, objectList, issued, retired>>

\* ------------------------------------------------------- BitstormEmitter
\* listeners: event name -> TRUE when a handler array is stored under it.
NoListeners == [e \in EventNames |-> FALSE]

On(listeners, event) == [listeners EXCEPT ![event] = TRUE]

\* listeners[event] = null, for the event name it was given.
RemoveAllListeners(listeners, event) == [listeners EXCEPT ![event] = FALSE]

\* emit calls the handlers only when something is stored under the name.
Emits(listeners, event) == listeners[event]

\* ------------------------------------------------------- origin registry
RECURSIVE FindFrom(_, _, _, _)
FindFrom(list, recs, url, i) ==
    IF i > Len(list) THEN 0
    ELSE IF recs[list[i]].serverUrl = url THEN i
    ELSE FindFrom(list, recs, url, i + 1)

\* Position in the array of the first record with that URL, 0 when none.
FindIndex(list, recs, url) == FindFrom(list, recs, url, 1)

\* The record reference, 0 standing for null.
findContentServer(list, recs, url) ==
    IF FindIndex(list, recs, url) = 0 THEN 0 ELSE list[FindIndex(list, recs, url)]

\* The loop of chooseContentServer; i and minid are the code's 0-based indices.
RECURSIVE ChooseLoop(_, _, _, _)
ChooseLoop(list, recs, i, minid) ==
    IF i >= Len(list)
    THEN IF minid < Len(list) THEN list[minid + 1] ELSE 0
    ELSE IF recs[list[i + 1]].loadValue = 0 THEN list[i + 1]
    ELSE ChooseLoop(list, recs, i + 1,
                    IF recs[list[i + 1]].loadValue < minid THEN i ELSE minid)

chooseContentServer(list, recs) == ChooseLoop(list, recs, 0, 0)

RemoveAt(seq, i) == SubSeq(seq, 1, i - 1) \o SubSeq(seq, i + 1, Len(seq))

\* ------------------------------------------------------------ data store
NewStore(name) == [name |-> name, ready |-> FALSE, db |-> "null"]

\* url = server; a '/' is added to a non-empty server that lacks one.
CreateUrl(server, name) ==
    IF server = "" THEN name
    ELSE IF server \in SlashUrls THEN server \o name
    ELSE server \o "/" \o name

\* A request object.  phase is where the request stands: "lookup" (the get
\* is pending), "download" (the transfer is pending), "caching" (the write
\* transaction is pending) or "done" (nothing is pending).  stat is
\* xhr.status once the transfer has ended, TransportError when it ended in
\* onerror; response is xhr.response; txn is the write transaction.  starts,
\* lookups and transfers count the calls of start, queryDataStore and
\* downloadData; cached is what the cache held for the key when
\* requestResource made the request.
NewRequest(store, key, url) ==
    [key |-> key, url |-> url, store |-> store, started |-> FALSE,
     server |-> 0, clientId |-> 0, cmd |-> 0, phase |-> "created",
     progress |-> 0, stat |-> NoStatus, response |-> 0, txn |-> "none",
     cached |-> 0, starts |-> 0, lookups |-> 0, transfers |-> 0, listeners |-> NoListeners]

\* ---------------------------------------------------------- content client
\* No shutdown() yet.  After one, cmds and stores are the numbers of
\* commands handled and of stores created when it returned.
NotShut == [down |-> FALSE, cmds |-> 0, stores |-> 0]

\* ----------------------------------------------------------- core library
\* null, where the other values are numbers.
Null == -1

\* An Emitter with no listener.  listeners is the listener array of one
\* event; made is the number of once() functions created so far; emits
\* records every emit: the array when it began, the functions it called
\* and whether it ended in a TypeError.
NewEmitter == [listeners |-> <<>>, made |-> 0, emits |-> <<>>]

\* createStateMachine(stateCount, defaultStateId).  eventQueue holds the
\* slots of the queue that have been written, every slot past them being
\* empty; pc, eventIndex and trace belong to stateMachineUpdate: whether
\* it is running, its local eventIndex, and the calls the running or the
\* last update has made on states.
createStateMachine(defaultStateId) ==
    [currentState |-> Null, defaultState |-> defaultStateId, eventCount |-> 0,
     eventQueue |-> <<>>, pc |-> "idle", eventIndex |-> 0, trace |-> <<>>]

\* index of a slot that holds no object.
NoIndex == 65535

\* createObjectList(maxObjects), maxObjects a power of two.
createObjectList(maxObjects) ==
    [MAX_OBJECTS |-> maxObjects, NEW_ID_ADD |-> maxObjects, count |-> 0,
     fifoTail |-> 0, fifoHead |-> maxObjects - 1,
     indices |-> [i \in 0..(maxObjects - 1) |-> [id |-> i, index |-> NoIndex, next |-> i + 1]],
     objects |-> [i \in 0..(maxObjects - 1) |-> Null]]

\* The list has 2^ListBits slots.
ListBits == 2

InitLibrary ==
    /\ emitter = NewEmitter
    /\ machine = createStateMachine(0)
    /\ objectList = createObjectList(2^ListBits)
    /\ issued = {}
    /\ retired = {}

\* ------------------------------------------------------------------ Init
Init ==
    /\ records = <<[serverUrl |-> "", loadValue |-> 0]>>
    /\ contentServers = <<1>>
    /\ dataStores = [n \in CacheNames |-> 0]
    /\ stores = <<>>
    /\ connQueue = [n \in CacheNames |-> <<>>]
    /\ filedata = [n \in CacheNames |-> [k \in Keys |-> 0]]
    /\ metadata = [n \in CacheNames |-> [k \in Keys |-> 0]]
    /\ requests = <<>>
    /\ cmds = <<>>
    /\ notes = <<>>
    /\ thrown = {}
    /\ cacheReady = [n \in CacheNames |-> 0]
    /\ openErrors = 0
    /\ deletes = 0
    /\ shut = NotShut
    /\ InitLibrary

\* ------------------------------------------------------- origin registry
\* addContentServer(url): a record is pushed only when the URL is not found.
addContentServer(url) ==
    /\ Len(records) < MaxRecords
    /\ IF findContentServer(contentServers, records, url) = 0
       THEN /\ records' = Append(records, [serverUrl |-> url, loadValue |-> 0])
            /\ contentServers' = Append(contentServers, Len(records) + 1)
       ELSE UNCHANGED <<records, contentServers>>
    /\ UNCHANGED <<dataStores, stores, connQueue, filedata, metadata, requests,
                   cmds, notes, thrown, cacheReady, openErrors, deletes>>
    /\ UNCHANGED <<shut, library>>

\* removeContentServer(url): the first record with the URL is spliced out of
\* the array; the record object itself lives on in the requests bound to it.
removeContentServer(url) ==
    /\ contentServers' =
          IF FindIndex(contentServers, records, url) = 0 THEN contentServers
          ELSE RemoveAt(contentServers, FindIndex(contentServers, records, url))
    /\ UNCHANGED <<records, dataStores, stores, connQueue, filedata, metadata,
                   requests, cmds, notes, thrown, cacheReady, openErrors, deletes>>
    /\ UNCHANGED <<shut, library>>

\* ----------------------------------------------------------- cache stores
\* createDataStore(name): nothing when the map has the name; otherwise a new
\* store whose open() queues an open request at indexedDB.
createDataStore(name) ==
    /\ Len(stores) < MaxStores
    /\ IF dataStores[name] # 0
       THEN UNCHANGED <<stores, connQueue>>
       ELSE /\ stores' = Append(stores, NewStore(name))
            /\ connQueue' = [connQueue EXCEPT ![name] = Append(@, Len(stores) + 1)]
    /\ UNCHANGED <<contentServers, records, dataStores, filedata, metadata,
                   requests, cmds, notes, thrown, cacheReady, openErrors, deletes>>
    /\ UNCHANGED <<shut, library>>

\* The open request of store s is the one indexedDB serves next.
OpenIsNext(s) ==
    /\ connQueue[stores[s].name] # <<>>
    /\ Head(connQueue[stores[s].name]) = s

\* handleDataStoreReady that sends CACHE_READY without storing the store.
handleOpenSuccess_NoRecord(s) ==
    /\ OpenIsNext(s)
    /\ connQueue' = [connQueue EXCEPT ![stores[s].name] = Tail(@)]
    /\ stores' = [stores EXCEPT ![s].db = "open", ![s].ready = TRUE]
    /\ cacheReady' = [cacheReady EXCEPT ![stores[s].name] = @ + 1]
    /\ UNCHANGED <<contentServers, records, dataStores, filedata, metadata, requests,
                   cmds, notes, thrown, openErrors, deletes>>
    /\ UNCHANGED <<shut, library>>

\* req.onsuccess of open(): handleOpenSuccess without a version change sets
\* ready and emits 'ready'; handleDataStoreReady stores the store in the map
\* and emits CACHE_READY.
handleOpenSuccess(s) ==
    /\ OpenIsNext(s)
    /\ connQueue' = [connQueue EXCEPT ![stores[s].name] = Tail(@)]
    /\ stores' = [stores EXCEPT ![s].db = "open", ![s].ready = TRUE]
    /\ dataStores' = [dataStores EXCEPT ![stores[s].name] = s]
    /\ cacheReady' = [cacheReady EXCEPT ![stores[s].name] = @ + 1]
    /\ UNCHANGED <<contentServers, records, filedata, metadata, requests, cmds,
                   notes, thrown, openErrors, deletes>>
    /\ UNCHANGED <<shut, library>>

\* req.onsuccess of open() on a browser that has db.setVersion and whose
\* database is not at VERSION: this.db is set and a setVersion request is
\* pending; the store is not ready.
handleOpenSuccess_setVersion(s) ==
    /\ OpenIsNext(s)
    /\ connQueue' = [connQueue EXCEPT ![stores[s].name] = Tail(@)]
    /\ stores' = [stores EXCEPT ![s].db = "setVersion"]
    /\ UNCHANGED <<contentServers, records, dataStores, filedata, metadata, requests,
                   cmds, notes, thrown, cacheReady, openErrors, deletes>>
    /\ UNCHANGED <<shut, library>>

\* req.onsuccess of setVersion: the containers are created and the version
\* change transaction is pending.
setVersion_onsuccess(s) ==
    /\ stores[s].db = "setVersion"
    /\ stores' = [stores EXCEPT ![s].db = "versionchange"]
    /\ UNCHANGED <<contentServers, records, dataStores, connQueue, filedata, metadata,
                   requests, cmds, notes, thrown, cacheReady, openErrors, deletes>>
    /\ UNCHANGED <<shut, library>>

\* req.result.oncomplete of setVersion: ready is set and 'ready' emitted;
\* handleDataStoreReady stores the store and emits CACHE_READY.
versionchange_oncomplete(s) ==
    /\ stores[s].db = "versionchange"
    /\ stores' = [stores EXCEPT ![s].db = "open", ![s].ready = TRUE]
    /\ dataStores' = [dataStores EXCEPT ![stores[s].name] = s]
    /\ cacheReady' = [cacheReady EXCEPT ![stores[s].name] = @ + 1]
    /\ UNCHANGED <<contentServers, records, connQueue, filedata, metadata, requests,
                   cmds, notes, thrown, openErrors, deletes>>
    /\ UNCHANGED <<shut, library>>

\* req.onerror of setVersion: 'error' is emitted; the connection stays open
\* at the old version and the store never becomes ready.
setVersion_onerror(s) ==
    /\ stores[s].db = "setVersion"
    /\ stores' = [stores EXCEPT ![s].db = "unversioned"]
    /\ openErrors' = openErrors + 1
    /\ UNCHANGED <<contentServers, records, dataStores, connQueue, filedata, metadata,
                   requests, cmds, notes, thrown, cacheReady, deletes>>
    /\ UNCHANGED <<shut, library>>

\* handleOpenError that takes the store for opened.
handleOpenError_Ready(s) ==
    /\ OpenIsNext(s)
    /\ connQueue' = [connQueue EXCEPT ![stores[s].name] = Tail(@)]
    /\ openErrors' = openErrors + 1
    /\ stores' = [stores EXCEPT ![s].ready = TRUE]
    /\ dataStores' = [dataStores EXCEPT ![stores[s].name] = s]
    /\ UNCHANGED <<contentServers, records, filedata, metadata, requests, cmds,
                   notes, thrown, cacheReady, deletes>>
    /\ UNCHANGED <<shut, library>>

\* req.onerror of open(): handleOpenError emits 'error', which
\* handleDataStoreError passes on; the store stays as it was.
handleOpenError(s) ==
    /\ OpenIsNext(s)
    /\ connQueue' = [connQueue EXCEPT ![stores[s].name] = Tail(@)]
    /\ openErrors' = openErrors + 1
    /\ UNCHANGED <<contentServers, records, dataStores, stores, filedata, metadata,
                   requests, cmds, notes, thrown, cacheReady, deletes>>
    /\ UNCHANGED <<shut, library>>

\* BitstormDataStore.close on store s, as values of (stores, dataStores):
\* only a ready store is closed; 'closing' makes the server drop the name.
CloseStores(s) ==
    IF s # 0 /\ stores[s].ready
    THEN [stores EXCEPT ![s].ready = FALSE, ![s].db = "closed"]
    ELSE stores

CloseMap(s) ==
    IF s # 0 /\ stores[s].ready
    THEN [dataStores EXCEPT ![stores[s].name] = 0]
    ELSE dataStores

\* deleteDataStore(name): close the store the map holds, then ask indexedDB
\* to delete the database.
deleteDataStore(name) ==
    /\ deletes < MaxDeletes
    /\ deletes' = deletes + 1
    /\ stores' = CloseStores(dataStores[name])
    /\ dataStores' = CloseMap(dataStores[name])
    /\ connQueue' = [connQueue EXCEPT ![name] = Append(@, 0)]
    /\ UNCHANGED <<contentServers, records, filedata, metadata, requests, cmds,
                   notes, thrown, cacheReady, openErrors>>
    /\ UNCHANGED <<shut, library>>

\* A request holds a transaction of its store's database.
InTransaction(r) == requests[r].phase \in {"lookup", "caching"}

\* A connection to the database is still in use: open, or closed with a
\* transaction that has not finished.
Connected(name) ==
    \/ \E s \in 1..Len(stores) :
          /\ stores[s].name = name
          /\ stores[s].db \in {"open", "setVersion", "versionchange", "unversioned"}
    \/ \E r \in 1..Len(requests) :
          stores[requests[r].store].name = name /\ InTransaction(r)

\* indexedDB carries out a queued deleteDatabase once no connection is left.
deleteDatabase(name) ==
    /\ connQueue[name] # <<>>
    /\ Head(connQueue[name]) = 0
    /\ ~Connected(name)
    /\ connQueue' = [connQueue EXCEPT ![name] = Tail(@)]
    /\ filedata' = [filedata EXCEPT ![name] = [k \in Keys |-> 0]]
    /\ metadata' = [metadata EXCEPT ![name] = [k \in Keys |-> 0]]
    /\ UNCHANGED <<contentServers, records, dataStores, stores, requests, cmds,
                   notes, thrown, cacheReady, openErrors, deletes>>
    /\ UNCHANGED <<shut, library>>

\* ------------------------------------------------------ resource requests
\* One message or 'error' event of the server, as the application sees it.
Msg(id, requestId, data, progress) ==
    [id |-> id, requestId |-> requestId, data |-> data, progress |-> progress]

\* What the server emits is filed under the command that caused it.
Emitted(cmd, msg) == [notes EXCEPT ![cmd] = Append(@, msg)]

\* `if (preferredServer)`: undefined and the empty string are both falsy.
Truthy(str) == str # Undefined /\ str # ""

\* queryDataStore(): a read-only transaction with one get is pending.
queryDataStore(req) == [req EXCEPT !.phase = "lookup", !.lookups = @ + 1]

\* downloadData(): an XMLHttpRequest is sent.
downloadData(req) == [req EXCEPT !.phase = "download", !.transfers = @ + 1]

\* start(checkCache) without the test of this.started.
start_Restarts(req, checkCache) ==
    IF checkCache # "false"
    THEN queryDataStore([req EXCEPT !.started = TRUE, !.starts = @ + 1])
    ELSE downloadData([req EXCEPT !.started = TRUE, !.starts = @ + 1])

\* start(checkCache) that asks the cache whatever checkCache is.
start_AlwaysLooksUp(req, checkCache) ==
    IF req.started THEN [req EXCEPT !.starts = @ + 1]
    ELSE queryDataStore([req EXCEPT !.started = TRUE, !.starts = @ + 1])

\* start(checkCache): nothing when already started; `checkCache != false`
\* sends everything but false to the cache lookup.
start(req, checkCache) ==
    IF req.started THEN [req EXCEPT !.starts = @ + 1]
    ELSE IF checkCache # "false"
         THEN queryDataStore([req EXCEPT !.started = TRUE, !.starts = @ + 1])
         ELSE downloadData([req EXCEPT !.started = TRUE, !.starts = @ + 1])

\* The payload a transfer delivers: each download is told apart by the
\* command that asked for it.
Payload(r) == requests[r].cmd

\* Stand-ins for the two results of a division by zero: NaN (0 / 0), which
\* no comparison finds inside an interval, and Infinity (x / 0 for x > 0).
NaN == -1
Infinity == 1000

\* loaded / total * 100 in floating point, to the whole percent.
Quotient(loaded, total) ==
    IF total # 0 THEN (loaded * 100) \div total
    ELSE IF loaded = 0 THEN NaN ELSE Infinity

\* percent of handleRequestProgress.
Percent(info) == IF info[1] THEN Quotient(info[2], info[3]) ELSE 99

\* handleRequestData(req, data), req being reqs[r].
handleRequestData(reqs, r, data) ==
    /\ requests' = [reqs EXCEPT ![r].listeners = RemoveAllListeners(@, Undefined)]
    /\ records' = [records EXCEPT ![reqs[r].server].loadValue = @ - 1]
    /\ notes' = Emitted(reqs[r].cmd, Msg("RESOURCE_DATA", reqs[r].clientId, data, 0))

\* handleRequestError that leaves the load estimate alone.
handleRequestError_KeepsLoad(reqs, r) ==
    /\ requests' = [reqs EXCEPT ![r].listeners = RemoveAllListeners(@, Undefined)]
    /\ notes' = Emitted(reqs[r].cmd, Msg("ERROR", reqs[r].clientId, 0, 0))
    /\ UNCHANGED records

\* handleRequestError(req, error), req being reqs[r].
handleRequestError(reqs, r) ==
    /\ requests' = [reqs EXCEPT ![r].listeners = RemoveAllListeners(@, Undefined)]
    /\ records' = [records EXCEPT ![reqs[r].server].loadValue = @ - 1]
    /\ notes' = Emitted(reqs[r].cmd, Msg("ERROR", reqs[r].clientId, 0, 0))

\* handleRequestProgress(req, info), req being reqs[r].
handleRequestProgress(reqs, r, info) ==
    /\ requests' = reqs
    /\ notes' = Emitted(reqs[r].cmd, Msg("PROGRESS", reqs[r].clientId, 0, Percent(info)))
    /\ UNCHANGED records

\* self.emit('data', self, data) on request r.
EmitData(reqs, r, data) ==
    IF Emits(reqs[r].listeners, "data") THEN handleRequestData(reqs, r, data)
    ELSE requests' = reqs /\ UNCHANGED <<records, notes>>

\* self.emit('error', self, xhr.statusText) on request r.
EmitError(reqs, r) ==
    IF Emits(reqs[r].listeners, "error") THEN handleRequestError(reqs, r)
    ELSE requests' = reqs /\ UNCHANGED <<records, notes>>

\* self.emit('progress', self, e) on request r.
EmitProgress(reqs, r, info) ==
    IF Emits(reqs[r].listeners, "progress") THEN handleRequestProgress(reqs, r, info)
    ELSE requests' = reqs /\ UNCHANGED <<records, notes>>

\* The record a request is bound to: the preferred one when it is looked
\* up and found, otherwise the chosen one; 0 is null.
SelectServer(list, recs, preferredServer) ==
    IF Truthy(preferredServer) /\ findContentServer(list, recs, preferredServer) # 0
    THEN findContentServer(list, recs, preferredServer)
    ELSE chooseContentServer(list, recs)

\* The request built without `request.clientId = requestId`.
Dispatched_NoClientId(args, requestId, dataStore, serverRecord) ==
    start([NewRequest(dataStore, args.resourceName,
                      CreateUrl(records[serverRecord].serverUrl, args.resourceName))
             EXCEPT !.server = serverRecord, !.cmd = requestId,
                    !.cached = filedata[stores[dataStore].name][args.resourceName],
                    !.listeners = On(On(On(NoListeners, "data"), "error"), "progress")],
          args.returnCached)

\* The request requestResource builds and starts.
Dispatched(args, requestId, dataStore, serverRecord) ==
    start([NewRequest(dataStore, args.resourceName,
                      CreateUrl(records[serverRecord].serverUrl, args.resourceName))
             EXCEPT !.server = serverRecord, !.clientId = requestId, !.cmd = requestId,
                    !.cached = filedata[stores[dataStore].name][args.resourceName],
                    !.listeners = On(On(On(NoListeners, "data"), "error"), "progress")],
          args.returnCached)

\* this.emit('error', this, 'Cache ... is not ready.', requestId).
NotReadyError_NoId(requestId) == Msg("ERROR", 0, 0, 0)

NotReadyError(requestId) == Msg("ERROR", requestId, 0, 0)

\* requestResource(args); the requestId is the number of the command.
requestResource(args) ==
    LET requestId == Len(cmds) + 1
        dataStore == dataStores[args.cacheName]
        serverRecord == SelectServer(contentServers, records, args.preferredServer)
    IN  /\ cmds' = Append(cmds, args)
        /\ IF dataStore = 0 \/ ~stores[dataStore].ready
           THEN \* the cache is unknown or not ready: 'error' with the requestId.
                /\ notes' = Append(notes, <<NotReadyError(requestId)>>)
                /\ UNCHANGED <<requests, records, thrown>>
           ELSE IF serverRecord = 0
           THEN \* serverRecord.serverUrl of null: a TypeError nobody catches.
                /\ thrown' = thrown \cup {[cmd |-> requestId, at |-> "requestResource"]}
                /\ notes' = Append(notes, <<>>)
                /\ UNCHANGED <<requests, records>>
           ELSE /\ requests' = Append(requests,
                                     Dispatched(args, requestId, dataStore, serverRecord))
                /\ records' = [records EXCEPT ![serverRecord].loadValue = @ + 1]
                /\ notes' = Append(notes, <<>>)
                /\ UNCHANGED thrown
        /\ UNCHANGED <<contentServers, dataStores, stores, connQueue, filedata,
                       metadata, cacheReady, openErrors, deletes>>
        /\ UNCHANGED <<shut, library>>

\* req.onsuccess of the lookup that emits a stored value and downloads
\* all the same.
queryDataStore_onsuccess_AlsoDownloads(r) ==
    LET result == filedata[stores[requests[r].store].name][requests[r].key]
    IN  /\ requests[r].phase = "lookup"
        /\ IF result # 0
           THEN EmitData([requests EXCEPT ![r] = downloadData(@)], r, result)
           ELSE /\ requests' = [requests EXCEPT ![r] = downloadData(@)]
                /\ UNCHANGED <<records, notes>>
        /\ UNCHANGED <<contentServers, dataStores, stores, connQueue, filedata,
                       metadata, cmds, thrown, cacheReady, openErrors, deletes>>
        /\ UNCHANGED <<shut, library>>

\* req.onsuccess of the lookup that emits something else than req.result.
queryDataStore_onsuccess_WrongPayload(r) ==
    LET result == filedata[stores[requests[r].store].name][requests[r].key]
    IN  /\ requests[r].phase = "lookup"
        /\ IF result # 0
           THEN EmitData([requests EXCEPT ![r].phase = "done"], r, Payload(r))
           ELSE /\ requests' = [requests EXCEPT ![r] = downloadData(@)]
                /\ UNCHANGED <<records, notes>>
        /\ UNCHANGED <<contentServers, dataStores, stores, connQueue, filedata,
                       metadata, cmds, thrown, cacheReady, openErrors, deletes>>
        /\ UNCHANGED <<shut, library>>

\* req.onsuccess of the lookup: a stored value is emitted as 'data', an
\* undefined result starts the download.
queryDataStore_onsuccess(r) ==
    LET result == filedata[stores[requests[r].store].name][requests[r].key]
    IN  /\ requests[r].phase = "lookup"
        /\ IF result # 0
           THEN EmitData([requests EXCEPT ![r].phase = "done"], r, result)
           ELSE /\ requests' = [requests EXCEPT ![r] = downloadData(@)]
                /\ UNCHANGED <<records, notes>>
        /\ UNCHANGED <<contentServers, dataStores, stores, connQueue, filedata,
                       metadata, cmds, thrown, cacheReady, openErrors, deletes>>
        /\ UNCHANGED <<shut, library>>

\* req.onerror of the lookup that reports the failure as 'error'.
queryDataStore_onerror_Reports(r) ==
    /\ requests[r].phase = "lookup"
    /\ EmitError([requests EXCEPT ![r].phase = "done"], r)
    /\ UNCHANGED <<contentServers, dataStores, stores, connQueue, filedata,
                   metadata, cmds, thrown, cacheReady, openErrors, deletes>>
    /\ UNCHANGED <<shut, library>>

\* req.onerror of the lookup: download.
queryDataStore_onerror(r) ==
    /\ requests[r].phase = "lookup"
    /\ requests' = [requests EXCEPT ![r] = downloadData(@)]
    /\ UNCHANGED <<contentServers, records, dataStores, stores, connQueue, filedata,
                   metadata, cmds, notes, thrown, cacheReady, openErrors, deletes>>
    /\ UNCHANGED <<shut, library>>

\* xhr.onprogress, before the transfer ends.
xhr_onprogress(r, info) ==
    /\ requests[r].phase = "download"
    /\ requests[r].progress < MaxProgress
    /\ EmitProgress([requests EXCEPT ![r].progress = @ + 1], r, info)
    /\ UNCHANGED <<contentServers, dataStores, stores, connQueue, filedata,
                   metadata, cmds, thrown, cacheReady, openErrors, deletes>>
    /\ UNCHANGED <<shut, library>>

\* xhr.onload whose cacheData gets a write transaction from a connection in
\* any state.
xhr_onload_AnyConnection(r, stat) ==
    /\ requests[r].phase = "download"
    /\ IF stat >= 200 /\ stat < 300
       THEN /\ requests' = [requests EXCEPT ![r].phase = "caching",
                                            ![r].stat = stat,
                                            ![r].response = Payload(r),
                                            ![r].txn = "active"]
            /\ UNCHANGED <<records, notes, thrown>>
       ELSE /\ EmitError([requests EXCEPT ![r].phase = "done", ![r].stat = stat], r)
            /\ UNCHANGED thrown
    /\ UNCHANGED <<contentServers, dataStores, stores, connQueue, filedata,
                   metadata, cmds, cacheReady, openErrors, deletes>>
    /\ UNCHANGED <<shut, library>>

\* xhr.onload: a status in [200, 300) goes on to cacheData, whose
\* db.transaction throws on a connection that was closed; any other status
\* is emitted as 'error'.
xhr_onload(r, stat) ==
    /\ requests[r].phase = "download"
    /\ IF stat >= 200 /\ stat < 300
       THEN IF stores[requests[r].store].db = "open"
            THEN /\ requests' = [requests EXCEPT ![r].phase = "caching",
                                                 ![r].stat = stat,
                                                 ![r].response = Payload(r),
                                                 ![r].txn = "active"]
                 /\ UNCHANGED <<records, notes, thrown>>
            ELSE /\ requests' = [requests EXCEPT ![r].phase = "done",
                                                 ![r].stat = stat,
                                                 ![r].response = Payload(r)]
                 /\ thrown' = thrown \cup {[cmd |-> requests[r].cmd, at |-> "cacheData"]}
                 /\ UNCHANGED <<records, notes>>
       ELSE /\ EmitError([requests EXCEPT ![r].phase = "done", ![r].stat = stat], r)
            /\ UNCHANGED thrown
    /\ UNCHANGED <<contentServers, dataStores, stores, connQueue, filedata,
                   metadata, cmds, cacheReady, openErrors, deletes>>
    /\ UNCHANGED <<shut, library>>

\* xhr.onerror: the transfer failed.
xhr_onerror(r) ==
    /\ requests[r].phase = "download"
    /\ EmitError([requests EXCEPT ![r].phase = "done", ![r].stat = TransportError], r)
    /\ UNCHANGED <<contentServers, dataStores, stores, connQueue, filedata,
                   metadata, cmds, thrown, cacheReady, openErrors, deletes>>
    /\ UNCHANGED <<shut, library>>

\* txn.oncomplete of a transaction that stores the file data without its
\* metadata.
txn_oncomplete_FileOnly(r) ==
    LET name == stores[requests[r].store].name
        key == requests[r].key
    IN  /\ requests[r].phase = "caching"
        /\ filedata' = [filedata EXCEPT ![name][key] = requests[r].response]
        /\ requests[r].txn = "active"
        /\ EmitData([requests EXCEPT ![r].phase = "done", ![r].txn = "complete"],
                    r, requests[r].response)
        /\ UNCHANGED <<contentServers, dataStores, stores, connQueue, metadata, cmds,
                       thrown, cacheReady, openErrors, deletes>>
        /\ UNCHANGED <<shut, library>>

\* txn.oncomplete of cacheData: both puts are stored, 'data' is emitted.
txn_oncomplete(r) ==
    LET name == stores[requests[r].store].name
        key == requests[r].key
    IN  /\ requests[r].phase = "caching"
        /\ metadata' = [metadata EXCEPT ![name][key] = requests[r].response]
        /\ filedata' = [filedata EXCEPT ![name][key] = requests[r].response]
        /\ requests[r].txn = "active"
        /\ EmitData([requests EXCEPT ![r].phase = "done", ![r].txn = "complete"],
                    r, requests[r].response)
        /\ UNCHANGED <<contentServers, dataStores, stores, connQueue, cmds, thrown,
                       cacheReady, openErrors, deletes>>
        /\ UNCHANGED <<shut, library>>

\* txn.onerror that reports the failed write as the failure of the request.
txn_onerror_Fatal(r, first) ==
    /\ requests[r].phase = "caching"
    /\ EmitError(IF requests[r].txn = "active" /\ first
                 THEN [requests EXCEPT ![r].txn = "aborting"]
                 ELSE [requests EXCEPT ![r].txn = "aborted", ![r].phase = "done"],
                 r)
    /\ UNCHANGED <<contentServers, dataStores, stores, connQueue, filedata,
                   metadata, cmds, thrown, cacheReady, openErrors, deletes>>
    /\ UNCHANGED <<shut, library>>

\* txn.onerror of cacheData: the error event of a put bubbles to the
\* transaction, which is then aborted and stores nothing.  When the first of
\* the two puts failed (first = TRUE) the abort fails the second put too, and
\* its error event bubbles to the same handler.
txn_onerror(r, first) ==
    /\ requests[r].phase = "caching"
    /\ EmitData(IF requests[r].txn = "active" /\ first
                THEN [requests EXCEPT ![r].txn = "aborting"]
                ELSE [requests EXCEPT ![r].txn = "aborted", ![r].phase = "done"],
                r, requests[r].response)
    /\ UNCHANGED <<contentServers, dataStores, stores, connQueue, filedata,
                   metadata, cmds, thrown, cacheReady, openErrors, deletes>>
    /\ UNCHANGED <<shut, library>>

\* ------------------------------------------------------------------ Next
\* What an application passes as preferredServer and returnCached.
PreferredServers == {Undefined} \cup Urls
ReturnCachedValues == {"true", "false"}

\* The commands of the whole system leave the choice of the origin to the
\* server; the dispatch-only system below varies preferredServer.
Args == [cacheName : CacheNames, preferredServer : {Undefined},
         resourceName : Keys, returnCached : ReturnCachedValues]

Next ==
    \/ \E url \in Urls : addContentServer(url)
    \/ \E url \in Urls : removeContentServer(url)
    \/ \E name \in CacheNames : createDataStore(name)
    \/ \E name \in CacheNames : deleteDataStore(name)
    \/ \E name \in CacheNames : deleteDatabase(name)
    \/ \E s \in 1..Len(stores) : handleOpenSuccess(s)
    \/ \E s \in 1..Len(stores) : handleOpenError(s)
    \/ \E args \in Args : Len(cmds) < MaxRequests /\ requestResource(args)
    \/ \E r \in 1..Len(requests) : queryDataStore_onsuccess(r)
    \/ \E r \in 1..Len(requests) : queryDataStore_onerror(r)
    \/ \E r \in 1..Len(requests), info \in ProgressInfos : xhr_onprogress(r, info)
    \/ \E r \in 1..Len(requests), stat \in Statuses : xhr_onload(r, stat)
    \/ \E r \in 1..Len(requests) : xhr_onerror(r)
    \/ \E r \in 1..Len(requests) : txn_oncomplete(r)
    \/ \E r \in 1..Len(requests), first \in BOOLEAN : txn_onerror(r, first)

Spec == Init /\ [][Next]_vars

\* The dispatch-only system: origins are registered and removed, a cache is
\* opened and commands are dispatched, while no lookup or transfer has called
\* back yet.  Every behaviour of it is a behaviour of the whole system.
SelectArgs == [cacheName : CacheNames, preferredServer : PreferredServers,
               resourceName : Keys, returnCached : {"true"}]

NextSelect ==
    \/ \E url \in Urls : addContentServer(url)
    \/ \E url \in Urls : removeContentServer(url)
    \/ \E name \in CacheNames : createDataStore(name)
    \/ \E s \in 1..Len(stores) : handleOpenSuccess(s)
    \/ \E args \in SelectArgs : Len(cmds) < MaxDispatch /\ requestResource(args)

SpecSelect == Init /\ [][NextSelect]_vars

\* The cache system: one origin, the cache stores and the whole life of every
\* request.  The database outlives the page, so it may hold what an earlier
\* session stored, and returnCached may be left out.
PriorData == -1

InitCache ==
    /\ records = <<[serverUrl |-> "", loadValue |-> 0]>>
    /\ contentServers = <<1>>
    /\ dataStores = [n \in CacheNames |-> 0]
    /\ stores = <<>>
    /\ connQueue = [n \in CacheNames |-> <<>>]
    /\ \E prior \in {0, PriorData} :
          /\ filedata = [n \in CacheNames |-> [k \in Keys |-> prior]]
          /\ metadata = [n \in CacheNames |-> [k \in Keys |-> prior]]
    /\ requests = <<>>
    /\ cmds = <<>>
    /\ notes = <<>>
    /\ thrown = {}
    /\ cacheReady = [n \in CacheNames |-> 0]
    /\ openErrors = 0
    /\ deletes = 0
    /\ shut = NotShut
    /\ InitLibrary

CacheArgs == [cacheName : CacheNames, preferredServer : {Undefined},
              resourceName : Keys, returnCached : ReturnCachedValues \cup {Undefined}]

NextCache ==
    \/ \E name \in CacheNames : createDataStore(name)
    \/ \E name \in CacheNames : deleteDataStore(name)
    \/ \E name \in CacheNames : deleteDatabase(name)
    \/ \E s \in 1..Len(stores) : handleOpenSuccess(s)
    \/ \E args \in CacheArgs : Len(cmds) < MaxRequests /\ requestResource(args)
    \/ \E r \in 1..Len(requests) : queryDataStore_onsuccess(r)
    \/ \E r \in 1..Len(requests) : queryDataStore_onerror(r)
    \/ \E r \in 1..Len(requests), info \in ProgressInfos : xhr_onprogress(r, info)
    \/ \E r \in 1..Len(requests), stat \in Statuses : xhr_onload(r, stat)
    \/ \E r \in 1..Len(requests) : xhr_onerror(r)
    \/ \E r \in 1..Len(requests) : txn_oncomplete(r)
    \/ \E r \in 1..Len(requests), first \in BOOLEAN : txn_onerror(r, first)

SpecCache == InitCache /\ [][NextCache]_vars

\* The restart system: requestResource returns the request it has started,
\* and whoever holds it may call start on it again, MaxStarts calls in all.
MaxStarts == 2

startAgain(r, checkCache) ==
    /\ requests[r].starts < MaxStarts
    /\ requests' = [requests EXCEPT ![r] = start(@, checkCache)]
    /\ UNCHANGED <<contentServers, records, dataStores, stores, connQueue, filedata,
                   metadata, cmds, notes, thrown, cacheReady, openErrors, deletes>>
    /\ UNCHANGED <<shut, library>>

NextStart ==
    \/ \E name \in CacheNames : createDataStore(name)
    \/ \E s \in 1..Len(stores) : handleOpenSuccess(s)
    \/ \E args \in CacheArgs : Len(cmds) < MaxRequests /\ requestResource(args)
    \/ \E r \in 1..Len(requests), checkCache \in ReturnCachedValues \cup {Undefined} :
          startAgain(r, checkCache)
    \/ \E r \in 1..Len(requests) : queryDataStore_onsuccess(r)
    \/ \E r \in 1..Len(requests) : queryDataStore_onerror(r)
    \/ \E r \in 1..Len(requests), info \in ProgressInfos : xhr_onprogress(r, info)
    \/ \E r \in 1..Len(requests), stat \in Statuses : xhr_onload(r, stat)
    \/ \E r \in 1..Len(requests) : xhr_onerror(r)
    \/ \E r \in 1..Len(requests) : txn_oncomplete(r)
    \/ \E r \in 1..Len(requests), first \in BOOLEAN : txn_onerror(r, first)

SpecStart == InitCache /\ [][NextStart]_vars

\* The open system: caches are opened and deleted, every open ends in one of
\* the ways indexedDB can end it (with or without the setVersion of older
\* browsers), and commands are dispatched; no lookup or transfer has called
\* back yet.
NextOpen ==
    \/ \E name \in CacheNames : createDataStore(name)
    \/ \E name \in CacheNames : deleteDataStore(name)
    \/ \E name \in CacheNames : deleteDatabase(name)
    \/ \E s \in 1..Len(stores) : handleOpenSuccess(s)
    \/ \E s \in 1..Len(stores) : handleOpenError(s)
    \/ \E s \in 1..Len(stores) : handleOpenSuccess_setVersion(s)
    \/ \E s \in 1..Len(stores) : setVersion_onsuccess(s)
    \/ \E s \in 1..Len(stores) : setVersion_onerror(s)
    \/ \E s \in 1..Len(stores) : versionchange_oncomplete(s)
    \/ \E args \in Args : Len(cmds) < MaxRequests /\ requestResource(args)

SpecOpen == Init /\ [][NextOpen]_vars

\* ProgressEvent shapes with the totals a transfer can report: the body
\* length is not known, is 2, or is 0 (an empty body).
TransferInfos == ProgressInfos \cup {<<TRUE, 2, 2>>, <<TRUE, 0, 0>>}

\* Transfers and their progress: requests against a ready cache, whose
\* transfers report progress with any of these shapes.
NextProgress ==
    \/ \E name \in CacheNames : createDataStore(name)
    \/ \E s \in 1..Len(stores) : handleOpenSuccess(s)
    \/ \E args \in CacheArgs : Len(cmds) < MaxRequests /\ requestResource(args)
    \/ \E r \in 1..Len(requests) : queryDataStore_onsuccess(r)
    \/ \E r \in 1..Len(requests) : queryDataStore_onerror(r)
    \/ \E r \in 1..Len(requests), info \in TransferInfos : xhr_onprogress(r, info)
    \/ \E r \in 1..Len(requests), stat \in Statuses : xhr_onload(r, stat)
    \/ \E r \in 1..Len(requests) : xhr_onerror(r)

SpecProgress == InitCache /\ [][NextProgress]_vars

\* BitstormContentServerLocal.shutdown(): `return this`.
shutdown ==
    /\ shut' = [down |-> TRUE, cmds |-> Len(cmds), stores |-> Len(stores)]
    /\ UNCHANGED <<content, library>>

\* The local client and its server: commands, the callbacks of the cache
\* system, and shutdown.
NextShutdown ==
    \/ \E name \in CacheNames : createDataStore(name)
    \/ \E s \in 1..Len(stores) : handleOpenSuccess(s)
    \/ \E s \in 1..Len(stores) : handleOpenError(s)
    \/ \E args \in Args : Len(cmds) < MaxRequests /\ requestResource(args)
    \/ \E r \in 1..Len(requests) : queryDataStore_onsuccess(r)
    \/ \E r \in 1..Len(requests) : queryDataStore_onerror(r)
    \/ \E r \in 1..Len(requests), info \in ProgressInfos : xhr_onprogress(r, info)
    \/ \E r \in 1..Len(requests), stat \in Statuses : xhr_onload(r, stat)
    \/ \E r \in 1..Len(requests) : xhr_onerror(r)
    \/ \E r \in 1..Len(requests) : txn_oncomplete(r)
    \/ \E r \in 1..Len(requests), first \in BOOLEAN : txn_onerror(r, first)
    \/ shutdown

SpecShutdown == InitCache /\ [][NextShutdown]_vars

\* ------------------------------------------- registry commands (addServer)
\* handleClientMessage calls this.addServer and this.removeServer for
\* ADD_SERVER and REMOVE_SERVER.  The methods of that name push and look up
\* the URL string itself.  A string entry of the array is held in records as
\* [str, serverUrl]: str is the string, serverUrl is what reading .serverUrl
\* of a string gives.
StringEntry(url) == [str |-> url, serverUrl |-> Undefined]

IsString(entry) == "str" \in DOMAIN entry

\* list.indexOf(url): the first entry that is that string, 0 when none
\* (a record object is never equal to a string).
RECURSIVE IndexOfFrom(_, _, _, _)
IndexOfFrom(list, recs, url, i) ==
    IF i > Len(list) THEN 0
    ELSE IF IsString(recs[list[i]]) /\ recs[list[i]].str = url THEN i
    ELSE IndexOfFrom(list, recs, url, i + 1)

IndexOf(list, recs, url) == IndexOfFrom(list, recs, url, 1)

\* addServer(url): this.contentServers.push(url).
addServer(url) ==
    /\ Len(records) < MaxEntries
    /\ records' = Append(records, StringEntry(url))
    /\ contentServers' = Append(contentServers, Len(records) + 1)
    /\ UNCHANGED <<dataStores, stores, connQueue, filedata, metadata, requests,
                   cmds, notes, thrown, cacheReady, openErrors, deletes>>
    /\ UNCHANGED <<shut, library>>

\* removeServer(url): the entry indexOf finds is spliced out.
removeServer(url) ==
    /\ contentServers' =
          IF IndexOf(contentServers, records, url) = 0 THEN contentServers
          ELSE RemoveAt(contentServers, IndexOf(contentServers, records, url))
    /\ UNCHANGED <<records, dataStores, stores, connQueue, filedata, metadata,
                   requests, cmds, notes, thrown, cacheReady, openErrors, deletes>>
    /\ UNCHANGED <<shut, library>>

\* The registry alone: origins are added and removed by direct calls
\* (addContentServer, removeContentServer) and by commands (addServer,
\* removeServer).
NextRegistry ==
    \/ \E url \in Urls : addContentServer(url)
    \/ \E url \in Urls : removeContentServer(url)
    \/ \E url \in Urls : addServer(url)
    \/ \E url \in Urls : removeServer(url)

\* The constructor registers the application's own origin with
\* this.addServer(''): a record when that is addContentServer, the string
\* when it is the addServer above.
InitRegistry ==
    /\ records \in {<<[serverUrl |-> "", loadValue |-> 0]>>, <<StringEntry("")>>}
    /\ contentServers = <<1>>
    /\ dataStores = [n \in CacheNames |-> 0]
    /\ stores = <<>>
    /\ connQueue = [n \in CacheNames |-> <<>>]
    /\ filedata = [n \in CacheNames |-> [k \in Keys |-> 0]]
    /\ metadata = [n \in CacheNames |-> [k \in Keys |-> 0]]
    /\ requests = <<>>
    /\ cmds = <<>>
    /\ notes = <<>>
    /\ thrown = {}
    /\ cacheReady = [n \in CacheNames |-> 0]
    /\ openErrors = 0
    /\ deletes = 0
    /\ shut = NotShut
    /\ InitLibrary

SpecRegistry == InitRegistry /\ [][NextRegistry]_vars

\* ------------------------------------------------------- message protocol
\* What reading a property gives that the object does not define, where it
\* is compared with the integer identifiers.
UndefinedId == -1

\* bitstorm.content.shared.js, the file the loader and the worker import.
BitstormContentClientCommand == [ERROR |-> 0]

BitstormContentServerCommand == [ADD_SERVER |-> 0, REMOVE_SERVER |-> 1]

\* table.name
Get(table, name) == IF name \in DOMAIN table THEN table[name] ELSE UndefinedId

\* data.f for a string-valued field of a message.
Field(data, f) == IF f \in DOMAIN data THEN data[f] ELSE Undefined

\* The messages BitstormContentServerWorker posts.
addServerMessage(url) ==
    [id |-> Get(BitstormContentServerCommand, "ADD_SERVER"), url |-> url]

removeServerMessage(url) ==
    [id |-> Get(BitstormContentServerCommand, "REMOVE_SERVER"), url |-> url]

openCacheMessage(cacheName) ==
    [id |-> Get(BitstormContentServerCommand, "OPEN_CACHE"), name |-> cacheName]

deleteCacheMessage(cacheName) ==
    [id |-> Get(BitstormContentServerCommand, "DELETE_CACHE"), name |-> cacheName]

requestResourceMessage(args) ==
    [id |-> Get(BitstormContentServerCommand, "GET_RESOURCE"),
     cacheName |-> args.cacheName, preferredServer |-> args.preferredServer,
     resourceName |-> args.resourceName, returnCached |-> args.returnCached]

\* handleClientMessage(data): the switch runs the first case whose label is
\* strictly equal to data.id.
handleClientMessage(data) ==
    IF data.id = Get(BitstormContentServerCommand, "ADD_SERVER")
    THEN addServer(Field(data, "url"))
    ELSE IF data.id = Get(BitstormContentServerCommand, "REMOVE_SERVER")
    THEN removeServer(Field(data, "url"))
    ELSE IF data.id = Get(BitstormContentServerCommand, "OPEN_CACHE")
    THEN createDataStore(Field(data, "name"))
    ELSE IF data.id = Get(BitstormContentServerCommand, "DELETE_CACHE")
    THEN deleteDataStore(Field(data, "name"))
    ELSE IF data.id = Get(BitstormContentServerCommand, "GET_RESOURCE")
    THEN requestResource(data)
    ELSE UNCHANGED vars

\* The event a client emits for no message.
NoEvent == "none"

\* handleServerMessage / handleMessage of the client: the event emitted for
\* a message with that id.
handleMessage(id) ==
    IF id = Get(BitstormContentClientCommand, "ERROR") THEN "error"
    ELSE IF id = Get(BitstormContentClientCommand, "CACHE_READY") THEN "ready"
    ELSE IF id = Get(BitstormContentClientCommand, "PROGRESS") THEN "progress"
    ELSE IF id = Get(BitstormContentClientCommand, "RESOURCE_DATA") THEN "resource"
    ELSE NoEvent

\* Cache names a command can carry: a message without a name field has the
\* name undefined.
StoreNames == CacheNames \cup {Undefined}

InitProtocol ==
    /\ records = <<StringEntry("")>>
    /\ contentServers = <<1>>
    /\ dataStores = [n \in StoreNames |-> 0]
    /\ stores = <<>>
    /\ connQueue = [n \in StoreNames |-> <<>>]
    /\ filedata = [n \in StoreNames |-> [k \in Keys |-> 0]]
    /\ metadata = [n \in StoreNames |-> [k \in Keys |-> 0]]
    /\ requests = <<>>
    /\ cmds = <<>>
    /\ notes = <<>>
    /\ thrown = {}
    /\ cacheReady = [n \in StoreNames |-> 0]
    /\ openErrors = 0
    /\ deletes = 0
    /\ shut = NotShut
    /\ InitLibrary

\* The server behind its command handler: every command arrives as a
\* message of the client, and indexedDB answers the opens.
NextProtocol ==
    \/ \E url \in Urls : handleClientMessage(addServerMessage(url))
    \/ \E url \in Urls : handleClientMessage(removeServerMessage(url))
    \/ \E name \in CacheNames : handleClientMessage(openCacheMessage(name))
    \/ \E name \in CacheNames : handleClientMessage(deleteCacheMessage(name))
    \/ \E args \in Args : handleClientMessage(requestResourceMessage(args))
    \/ \E s \in 1..Len(stores) : handleOpenSuccess(s)
    \/ \E s \in 1..Len(stores) : handleOpenError(s)

SpecProtocol == InitProtocol /\ [][NextProtocol]_vars

\* ================================================================ claims
Terminal(msg) == msg.id \in {"RESOURCE_DATA", "ERROR"}

\* Positions in the notifications of command c that satisfy a test.
Positions(c, Test(_)) == {i \in 1..Len(notes[c]) : Test(notes[c][i])}

IsData(msg) == msg.id = "RESOURCE_DATA"
IsError(msg) == msg.id = "ERROR"
IsProgress(msg) == msg.id = "PROGRESS"

\* The request has had its terminal event and nothing of it is pending.
Terminated(r) ==
    /\ requests[r].phase = "done"
    /\ Positions(requests[r].cmd, Terminal) # {}

\* The step handles one GET_RESOURCE command.
CommandStep == Len(cmds') = Len(cmds) + 1

\* The step creates a request.
DispatchStep == Len(requests') = Len(requests) + 1

\* The cache a command names has a store record that is ready.
Usable(name) == dataStores[name] # 0 /\ stores[dataStores[name]].ready

Success(stat) == stat >= 200 /\ stat < 300

\* The transfer of request r has ended in a failure.
TransferFailed(req) == req.stat # NoStatus /\ ~Success(req.stat)

\* ------------------------------------------------------------------- C1
\* C1: origin load is balanced: once every dispatched request has had its
\* terminal event, every origin record is back at the load it had before
\* the requests, which is 0.
C1_LoadBalanced ==
    (\A r \in 1..Len(requests) : Terminated(r))
        => \A o \in 1..Len(records) : records[o].loadValue = 0

\* ------------------------------------------------------------------- C2
\* C2: for every request at most one terminal event (RESOURCE_DATA or ERROR)
\* is emitted in total.
C2_AtMostOneTerminal ==
    \A c \in 1..Len(notes) : Cardinality(Positions(c, Terminal)) <= 1

\* ------------------------------------------------------------------- C3
\* C3: every started request ends with a terminal notification: a started
\* request for which no lookup, transfer or write is pending any more has
\* emitted one.
C3_StartedTerminates ==
    \A r \in 1..Len(requests) :
        (requests[r].started /\ requests[r].phase = "done")
            => Positions(requests[r].cmd, Terminal) # {}

C5_NotReadyRejected ==
    [][(CommandStep /\ ~Usable(cmds'[Len(cmds')].cacheName)) =>
          /\ notes' = Append(notes, <<Msg("ERROR", Len(cmds'), 0, 0)>>)
          /\ UNCHANGED <<requests, records, contentServers, dataStores, stores,
                         connQueue, filedata, metadata, thrown>>]_vars

\* A command was rejected while the store of its cache was still opening.
C5_Witness ==
    \E c \in 1..Len(cmds) :
        /\ notes[c] = <<Msg("ERROR", c, 0, 0)>>
        /\ \A r \in 1..Len(requests) : requests[r].cmd # c
        /\ \E s \in 1..Len(stores) :
              /\ stores[s].name = cmds[c].cacheName
              /\ OpenIsNext(s)
              /\ Len(cmds) = c

\* ------------------------------------------------------------------- C6
\* The lowest load among the registered origins.
MinLoad(list, recs) ==
    CHOOSE m \in {recs[list[i]].loadValue : i \in 1..Len(list)} :
        \A i \in 1..Len(list) : m <= recs[list[i]].loadValue

\* The first registered origin that has the lowest load.
LowestFirst(list, recs) ==
    list[CHOOSE i \in 1..Len(list) :
            /\ recs[list[i]].loadValue = MinLoad(list, recs)
            /\ \A j \in 1..(i - 1) : recs[list[j]].loadValue # MinLoad(list, recs)]

\* C6: a request without a preferred origin is bound to the registered
\* origin with the lowest loadValue, the first registered among ties.
C6_LowestLoadFirst ==
    [][(DispatchStep /\ cmds'[Len(cmds')].preferredServer = Undefined) =>
          requests'[Len(requests')].server = LowestFirst(contentServers, records)]_vars

\* ------------------------------------------------------------------- C7
\* C7: a request that names a preferred origin is bound to the registered
\* origin with that URL when there is one, and to a registered origin
\* otherwise.
C7_PreferredOrigin ==
    [][(DispatchStep /\ cmds'[Len(cmds')].preferredServer # Undefined) =>
          IF findContentServer(contentServers, records,
                               cmds'[Len(cmds')].preferredServer) # 0
          THEN requests'[Len(requests')].server =
                 findContentServer(contentServers, records,
                                   cmds'[Len(cmds')].preferredServer)
          ELSE \E i \in 1..Len(contentServers) :
                 requests'[Len(requests')].server = contentServers[i]]_vars

\* ------------------------------------------------------------------- C8
\* C8: a GET_RESOURCE against a ready cache while the registry is empty is
\* rejected with an error carrying its requestId; nothing is thrown, no
\* request is created and no load changes.
C8_EmptyRegistryRejected ==
    [][(CommandStep /\ Usable(cmds'[Len(cmds')].cacheName) /\ contentServers = <<>>) =>
          /\ notes' = Append(notes, <<Msg("ERROR", Len(cmds'), 0, 0)>>)
          /\ UNCHANGED <<requests, records, thrown>>]_vars

\* ------------------------------------------------------------------- C9
\* Once the transfer has failed: one ERROR with the requestId, no
\* RESOURCE_DATA, no write transaction and no entry of its payload.
C9_FailedState(r) ==
    TransferFailed(requests[r]) =>
        /\ Cardinality(Positions(requests[r].cmd, IsError)) = 1
        /\ \A i \in Positions(requests[r].cmd, IsError) :
              notes[requests[r].cmd][i].requestId = requests[r].clientId
        /\ Positions(requests[r].cmd, IsData) = {}
        /\ requests[r].txn = "none"
        /\ \A n \in CacheNames, k \in Keys :
              filedata[n][k] # Payload(r) /\ metadata[n][k] # Payload(r)

\* The step in which the transfer fails takes exactly 1 from the load of the
\* bound origin record and writes nothing.
C9_FailingStep(r) ==
    (~TransferFailed(requests[r]) /\ TransferFailed(requests'[r])) =>
        /\ records' = [records EXCEPT ![requests[r].server].loadValue = @ - 1]
        /\ UNCHANGED <<filedata, metadata>>

\* C9: a transfer that ends with a status outside [200,300) or a transport
\* failure ends the request with exactly one error notification carrying its
\* requestId, writes nothing to the cache and takes exactly 1 from the
\* loadValue of the bound origin.
C9_TransferFailure ==
    /\ [](\A r \in 1..Len(requests) : C9_FailedState(r))
    /\ [][\A r \in 1..Len(requests) : C9_FailingStep(r)]_vars

\* Both kinds of failure have happened: a 404 and a transport error.
C9_Witness ==
    /\ \E r \in 1..Len(requests) :
          requests[r].stat = 404 /\ Positions(requests[r].cmd, IsError) # {}
    /\ \E r \in 1..Len(requests) :
          requests[r].stat = TransportError /\ Positions(requests[r].cmd, IsError) # {}

\* ------------------------------------------------------------------ C10
\* C10: in the notifications of one request nothing follows the terminal
\* notification: every PROGRESS comes before it and no notification of any
\* kind comes after it.
C10_NothingAfterTerminal ==
    \A c \in 1..Len(notes) :
        \A i \in 1..Len(notes[c]) : Terminal(notes[c][i]) => i = Len(notes[c])

\* ------------------------------------------------------------------ C11
\* C11: every notification of a request (progress, success, error) carries
\* the requestId of the GET_RESOURCE command that created the request, also
\* with several requests in flight; none carries the id of another request.
C11_RequestIdCorrelated ==
    /\ \A c \in 1..Len(notes) :
          \A i \in 1..Len(notes[c]) : notes[c][i].requestId = c
    /\ \A r \in 1..Len(requests) : requests[r].clientId = requests[r].cmd

\* Two requests are downloading together and each has reported progress.
C11_Witness ==
    \E r1, r2 \in 1..Len(requests) :
        /\ r1 # r2
        /\ requests[r1].phase = "download" /\ requests[r2].phase = "download"
        /\ Positions(requests[r1].cmd, IsProgress) # {}
        /\ Positions(requests[r2].cmd, IsProgress) # {}

\* ------------------------------------------------------------------ C12
\* C12: when the store of a request was closed by a delete and the download
\* has succeeded, the failed write-back is not fatal: once nothing of the
\* request is pending it has a RESOURCE_DATA with the downloaded data, and
\* no exception of it went uncaught.
C12_DeleteDuringDownload ==
    \A r \in 1..Len(requests) :
        (/\ requests[r].phase = "done"
         /\ Success(requests[r].stat)
         /\ ~stores[requests[r].store].ready) =>
            /\ \E i \in Positions(requests[r].cmd, IsData) :
                  notes[requests[r].cmd][i].data = Payload(r)
            /\ \A t \in thrown : t.cmd # requests[r].cmd

\* ------------------------------------------------------------------ C13
\* Request r begins a cache lookup in the step.
LookupBegins(r) ==
    requests'[r].lookups > (IF r <= Len(requests) THEN requests[r].lookups ELSE 0)

\* Request r begins a write transaction in the step.
WriteBegins(r) ==
    /\ r <= Len(requests)
    /\ requests[r].txn = "none"
    /\ requests'[r].txn = "active"

DeletedLast(name) ==
    /\ connQueue[name] # <<>>
    /\ connQueue[name][Len(connQueue[name])] = 0

\* C14: after deleteDataStore(name) the store map has no record for name,
\* and no record appears while no later openCache(name) has been handled.
C14_DeletedStaysAbsent ==
    [][\A name \in CacheNames :
          /\ deletes' # deletes => dataStores'[name] = 0
          /\ (dataStores[name] = 0 /\ dataStores'[name] # 0) => ~DeletedLast(name)]_vars

\* ------------------------------------------------------------------ C16
\* C16: the loadValue of every origin record is at least 0 in every
\* reachable state.
C16_LoadNeverNegative ==
    \A o \in 1..Len(records) : records[o].loadValue >= 0

\* ------------------------------------------------------------------ C15
\* The step is a call of start on request r after its first.
StartsAgain(r) ==
    /\ r <= Len(requests)
    /\ requests'[r].starts > requests[r].starts

\* C15: a second call of start on a request, whenever it comes and whatever
\* its checkCache, changes nothing of the request or the server, and in its
\* whole life a request makes at most one cache lookup and at most one
\* network transfer.
C15_SecondStartNoOp ==
    /\ [](\A r \in 1..Len(requests) :
            requests[r].lookups <= 1 /\ requests[r].transfers <= 1)
    /\ [][\A r \in 1..Len(requests') :
            StartsAgain(r) =>
                /\ requests' = [requests EXCEPT ![r].starts = requests'[r].starts]
                /\ UNCHANGED <<records, notes, filedata, metadata, thrown, stores>>]_vars

\* A request was started again, and it has made its one lookup and its one
\* transfer and has ended.
C15_Witness ==
    \E r \in 1..Len(requests) :
        /\ requests[r].starts = MaxStarts
        /\ requests[r].lookups = 1
        /\ requests[r].transfers = 1
        /\ Terminated(r)

\* ------------------------------------------------------------------ C17
\* What the cache of request r holds for its key.
Entry(r) == filedata[stores[requests[r].store].name][requests[r].key]

\* Request r has a RESOURCE_DATA whose payload is not its own download: it
\* was read from the cache.
CacheHit(r) ==
    \E i \in Positions(requests[r].cmd, IsData) :
        notes[requests[r].cmd][i].data # Payload(r)

\* The step answers the lookup of request r with a notification.
HitStep(r) ==
    /\ requests[r].phase = "lookup"
    /\ notes'[requests[r].cmd] # notes[requests[r].cmd]

\* C17: a request whose lookup finds the resource completes with one
\* RESOURCE_DATA carrying the cached value, and makes no transfer, no
\* progress notification and no cache write.
C17_CacheHit ==
    /\ [][\A r \in 1..Len(requests) :
            HitStep(r) =>
                /\ Entry(r) # 0
                /\ notes' = Emitted(requests[r].cmd,
                                    Msg("RESOURCE_DATA", requests[r].clientId, Entry(r), 0))
                /\ requests'[r].phase = "done"
                /\ UNCHANGED <<filedata, metadata>>]_vars
    /\ [](\A r \in 1..Len(requests) :
            CacheHit(r) =>
                /\ requests[r].phase = "done"
                /\ requests[r].transfers = 0
                /\ requests[r].txn = "none"
                /\ Positions(requests[r].cmd, IsProgress) = {}
                /\ Cardinality(Positions(requests[r].cmd, Terminal)) = 1)

\* A request was answered from the cache with what another request had
\* downloaded and written.
C17_Witness ==
    \E r, w \in 1..Len(requests) :
        /\ requests[w].txn = "complete"
        /\ requests[r].lookups = 1
        /\ notes[requests[r].cmd] =
              <<Msg("RESOURCE_DATA", requests[r].clientId, Payload(w), 0)>>

\* ------------------------------------------------------------------ C18
\* The lookup of request r ends in the step.
LookupEnds(r) == requests[r].phase = "lookup" /\ requests'[r].phase # "lookup"

\* C18: a lookup that finds no entry, and a lookup that fails, both go on to
\* the one network transfer of the request, and a failed lookup is never
\* reported: every ERROR of a request comes from its transfer.
C18_MissOrFailureDownloads ==
    /\ [][\A r \in 1..Len(requests) :
            LookupEnds(r) =>
                /\ requests'[r].phase \in {"download", "done"}
                /\ Entry(r) = 0 => requests'[r].phase = "download"
                /\ requests'[r].phase = "download" =>
                      /\ requests'[r].transfers = 1
                      /\ UNCHANGED <<notes, records, thrown>>
                /\ Positions(requests[r].cmd, IsError) = {}
                /\ \A i \in 1..Len(notes'[requests[r].cmd]) :
                      ~IsError(notes'[requests[r].cmd][i])]_vars
    /\ [](\A r \in 1..Len(requests) :
            /\ requests[r].transfers <= 1
            /\ Positions(requests[r].cmd, IsError) # {} => TransferFailed(requests[r]))

\* A lookup failed although the cache held the resource all along (what an
\* earlier session stored is still there), and the request went on to its
\* one transfer and ended with the downloaded data.
C18_Witness ==
    \E r \in 1..Len(requests) :
        /\ requests[r].lookups = 1
        /\ requests[r].transfers = 1
        /\ Entry(r) = PriorData
        /\ notes[requests[r].cmd] =
              <<Msg("RESOURCE_DATA", requests[r].clientId, Payload(r), 0)>>

\* ------------------------------------------------------------------ C19
\* The returnCached of the command that created request r.
ReturnCached(req) == cmds[req.cmd].returnCached

\* C19: a request with returnCached false never asks the cache and is
\* dispatched straight into its transfer, whatever the cache holds, and its
\* successful download is still written to the cache; a request with
\* returnCached true or left out is dispatched into the lookup and has made
\* no transfer while the lookup is pending.
C19_ReturnCached ==
    /\ [](\A r \in 1..Len(requests) :
            IF ReturnCached(requests[r]) = "false"
            THEN requests[r].lookups = 0 /\ requests[r].transfers = 1
            ELSE /\ requests[r].lookups = 1
                 /\ requests[r].phase = "lookup" => requests[r].transfers = 0)
    /\ [][DispatchStep =>
            IF cmds'[Len(cmds')].returnCached = "false"
            THEN requests'[Len(requests')].phase = "download"
            ELSE requests'[Len(requests')].phase = "lookup"]_vars
    /\ [][\A r \in 1..Len(requests) :
            /\ (/\ requests[r].phase = "download"
                /\ Success(requests'[r].stat)
                /\ stores[requests[r].store].ready) => requests'[r].txn = "active"
            /\ (requests[r].txn = "active" /\ requests'[r].txn = "complete") =>
                  filedata'[stores[requests[r].store].name][requests[r].key] = Payload(r)]_vars

\* A request with returnCached false has downloaded the resource without a
\* lookup and is writing it, while the cache has held the resource all
\* along; and a request without returnCached is looking the resource up.
C19_Witness ==
    \E r, q \in 1..Len(requests) :
        /\ ReturnCached(requests[r]) = "false"
        /\ requests[r].lookups = 0
        /\ requests[r].txn = "active"
        /\ Entry(r) = PriorData
        /\ ReturnCached(requests[q]) = Undefined
        /\ requests[q].phase = "lookup"

\* ------------------------------------------------------------------ C20
\* Another request downloaded data for the key of request r and its write
\* to the store of r has completed.
WrittenBy(r, data) ==
    \E w \in 1..Len(requests) :
        /\ w # r
        /\ requests[w].txn = "complete"
        /\ requests[w].store = requests[r].store
        /\ requests[w].key = requests[r].key
        /\ Payload(w) = data

\* Request r came after a completed write of its key, which the cache held
\* when r was made, and its lookup ends in the step while the store is
\* neither closed nor deleted.
RoundTripStep(r) ==
    /\ LookupEnds(r)
    /\ WrittenBy(r, requests[r].cached)
    /\ stores[requests[r].store].ready

Opening(s) ==
    \E i \in 1..Len(connQueue[stores[s].name]) : connQueue[stores[s].name][i] = s

\* C21: per cache name at most one store exists that is opening or ready:
\* an openCache for a name whose store is opening or ready makes no second
\* store and no second open.
C21_OneStorePerName ==
    \A name \in CacheNames :
        Cardinality({s \in 1..Len(stores) :
                        stores[s].name = name /\ (Opening(s) \/ stores[s].ready)}) <= 1

\* ------------------------------------------------------------------ C22
\* The command handled in the step is turned down as cache-not-ready.
Rejected == notes' = Append(notes, <<NotReadyError(Len(cmds'))>>)

\* C22: the step that emits CACHE_READY for a name leaves a ready store for
\* the name in the store map; the name stays usable in every step that
\* handles no deleteCache; and a GET_RESOURCE for a usable name is not
\* rejected as cache-not-ready.
C22_ReadyMeansUsable ==
    /\ [][\A name \in CacheNames :
            cacheReady'[name] # cacheReady[name] =>
                /\ dataStores'[name] # 0
                /\ stores'[dataStores'[name]].ready]_vars
    /\ [][\A name \in CacheNames :
            (Usable(name) /\ deletes' = deletes) =>
                /\ dataStores'[name] # 0
                /\ stores'[dataStores'[name]].ready]_vars
    /\ [][(CommandStep /\ Usable(cmds'[Len(cmds')].cacheName)) => ~Rejected]_vars

\* CACHE_READY was sent twice for a name, no delete was handled, the name
\* is usable and a GET_RESOURCE for it has made a request.
C22_Witness ==
    /\ deletes = 0
    /\ \E name \in CacheNames : cacheReady[name] = 2 /\ Usable(name)
    /\ Len(requests) >= 1

\* ------------------------------------------------------------------ C23
\* The open of store s has failed: its open request got onerror, or its
\* setVersion request did.
Failed(s) ==
    \/ stores[s].db = "unversioned"
    \/ stores[s].db = "null" /\ ~Opening(s)

\* C23: the step in which an open fails emits the error and nothing else:
\* no ready flag, store record or CACHE_READY changes; a store whose open
\* failed is never ready and never in the store map; and a GET_RESOURCE for
\* a name all of whose stores have failed is rejected as cache-not-ready.
C23_OpenFailure ==
    /\ [][openErrors' # openErrors =>
            /\ openErrors' = openErrors + 1
            /\ \A s \in 1..Len(stores) : stores'[s].ready = stores[s].ready
            /\ UNCHANGED <<dataStores, cacheReady, notes, requests>>]_vars
    /\ [](\A s \in 1..Len(stores) :
            Failed(s) => ~stores[s].ready /\ dataStores[stores[s].name] # s)
    /\ [][(/\ CommandStep
           /\ \E s \in 1..Len(stores) : stores[s].name = cmds'[Len(cmds')].cacheName
           /\ \A s \in 1..Len(stores) :
                 stores[s].name = cmds'[Len(cmds')].cacheName => Failed(s)) => Rejected]_vars

\* One open failed at once and one in setVersion, and a command for the
\* name was rejected afterwards.
C23_Witness ==
    /\ \E s \in 1..Len(stores) : stores[s].db = "unversioned"
    /\ \E s \in 1..Len(stores) : stores[s].db = "null" /\ ~Opening(s)
    /\ openErrors = 2
    /\ \E c \in 1..Len(cmds) : notes[c] = <<NotReadyError(c)>>

\* ------------------------------------------------------------------ C24
\* The URL a registry entry stands for.
EntryUrl(entry) == IF IsString(entry) THEN entry.str ELSE entry.serverUrl

\* The URL has an entry in the registry.
Registered(url) ==
    \E i \in 1..Len(contentServers) : EntryUrl(records[contentServers[i]]) = url

\* C24: the registry never holds two entries for one URL, and an add of a
\* URL that is registered, by a direct call or by an ADD_SERVER command,
\* changes neither the registry nor any record.
C24_OneRecordPerUrl ==
    /\ [](\A i, j \in 1..Len(contentServers) :
            i # j => EntryUrl(records[contentServers[i]]) #
                     EntryUrl(records[contentServers[j]]))
    /\ [][\A url \in Urls :
            ((addContentServer(url) \/ addServer(url)) /\ Registered(url)) =>
                UNCHANGED <<contentServers, records>>]_vars

\* ------------------------------------------------------------------ C25
\* Position of the first registry entry for the URL, 0 when it has none.
FirstEntry(url) ==
    IF Registered(url)
    THEN CHOOSE i \in 1..Len(contentServers) :
            /\ EntryUrl(records[contentServers[i]]) = url
            /\ \A j \in 1..(i - 1) : EntryUrl(records[contentServers[j]]) # url
    ELSE 0

\* Request r is bound to an origin that is no longer in the registry.
BoundToRemoved(r) ==
    /\ requests[r].server # 0
    /\ \A i \in 1..Len(contentServers) : contentServers[i] # requests[r].server

\* C25: a remove of a URL, by a direct call or by a REMOVE_SERVER command,
\* takes the entry of that URL out of the registry and changes no other
\* entry, no order and no record; it changes nothing when the URL has no
\* entry; and a request bound to a removed origin has had its terminal
\* notification once nothing of it is pending.
C25_RemoveExactly ==
    /\ [][\A url \in Urls :
            (removeContentServer(url) \/ removeServer(url)) =>
                /\ records' = records
                /\ contentServers' =
                      IF FirstEntry(url) = 0 THEN contentServers
                      ELSE RemoveAt(contentServers, FirstEntry(url))]_vars
    /\ [](\A r \in 1..Len(requests) :
            (BoundToRemoved(r) /\ requests[r].phase = "done") =>
                Positions(requests[r].cmd, Terminal) # {})

\* ------------------------------------------------------------------ C26
\* C26: a request whose terminal event the server has handled has no
\* listener left for 'data', 'error' or 'progress', and no step changes the
\* notifications of its command afterwards.
C26_DetachedAfterTerminal ==
    /\ [](\A r \in 1..Len(requests) :
            Positions(requests[r].cmd, Terminal) # {} =>
                \A e \in {"data", "error", "progress"} : ~requests[r].listeners[e])
    /\ [][\A r \in 1..Len(requests) :
            Positions(requests[r].cmd, Terminal) # {} =>
                notes'[requests[r].cmd] = notes[requests[r].cmd]]_vars

\* ------------------------------------------------------------------ C27
\* Request r ends in error in the step: its transfer was pending and an
\* ERROR is sent for its command.
EndsInError(r) ==
    /\ requests[r].phase = "download"
    /\ Len(notes'[requests[r].cmd]) = Len(notes[requests[r].cmd]) + 1
    /\ IsError(notes'[requests[r].cmd][Len(notes'[requests[r].cmd])])

\* C27: the step in which one request ends in error changes no other
\* request, no load value but that of the failed request's origin and no
\* ready flag; and the other requests still get their own terminal
\* notification: once another request has ended in error, a request with
\* nothing pending has one.
C27_ErrorIsLocal ==
    /\ [][\A r \in 1..Len(requests) :
            EndsInError(r) =>
                /\ \A q \in 1..Len(requests) : q # r => requests'[q] = requests[q]
                /\ \A k \in 1..Len(records) :
                      k # requests[r].server => records'[k] = records[k]
                /\ \A s \in 1..Len(stores) : stores'[s].ready = stores[s].ready
                /\ UNCHANGED <<contentServers, dataStores>>]_vars
    /\ [](\A r, q \in 1..Len(requests) :
            (/\ q # r
             /\ Positions(requests[r].cmd, IsError) # {}
             /\ requests[q].phase = "done") =>
                Positions(requests[q].cmd, Terminal) # {})

\* ------------------------------------------------------------------ C29
CommandNames == {"ADD_SERVER", "REMOVE_SERVER", "OPEN_CACHE", "DELETE_CACHE", "GET_RESOURCE"}

NotificationNames == {"ERROR", "CACHE_READY", "PROGRESS", "RESOURCE_DATA"}

\* Every name of the set has an identifier in the table, and no two names
\* have the same.
DefinedAndDistinct(table, names) ==
    \A a, b \in names :
        /\ Get(table, a) # UndefinedId
        /\ a # b => Get(table, a) # Get(table, b)

\* C29: the five command identifiers are defined and pairwise distinct, and
\* so are the four notification identifiers; and handleClientMessage runs,
\* for the message of each command, the operation of that command.
C29_IdentifiersDistinct ==
    /\ [](/\ DefinedAndDistinct(BitstormContentServerCommand, CommandNames)
          /\ DefinedAndDistinct(BitstormContentClientCommand, NotificationNames))
    /\ [][/\ \A url \in Urls :
               /\ handleClientMessage(addServerMessage(url)) => addServer(url)
               /\ handleClientMessage(removeServerMessage(url)) => removeServer(url)
           /\ \A name \in CacheNames :
               /\ handleClientMessage(openCacheMessage(name)) => createDataStore(name)
               /\ handleClientMessage(deleteCacheMessage(name)) => deleteDataStore(name)
           /\ \A args \in Args :
               handleClientMessage(requestResourceMessage(args)) =>
                   requestResource(requestResourceMessage(args))]_vars

\* ------------------------------------------------------------------ C28
\* The event the claim names for each kind of notification.
EventOfKind ==
    [ERROR |-> "error", CACHE_READY |-> "ready", PROGRESS |-> "progress",
     RESOURCE_DATA |-> "resource"]

\* C28: for every notification the server has sent, the client emits the
\* event of the notification's kind, the identifier of the message being
\* the one the server read from BitstormContentClientCommand; the same for
\* CACHE_READY; and a message of an unknown kind (identifier 9) emits no
\* event.
C28_KindToEvent ==
    /\ \A c \in 1..Len(notes) : \A i \in 1..Len(notes[c]) :
          handleMessage(Get(BitstormContentClientCommand, notes[c][i].id)) =
              EventOfKind[notes[c][i].id]
    /\ (\E name \in CacheNames : cacheReady[name] > 0) =>
          handleMessage(Get(BitstormContentClientCommand, "CACHE_READY")) = "ready"
    /\ handleMessage(9) = NoEvent

\* ------------------------------------------------------------------ C30
\* C30: every PROGRESS notification carries a value within [0,100], and the
\* value for a transfer that reports no computable length is 99.
C30_ProgressInRange ==
    /\ \A c \in 1..Len(notes) : \A i \in Positions(c, IsProgress) :
          notes[c][i].progress >= 0 /\ notes[c][i].progress <= 100
    /\ \A info \in TransferInfos : ~info[1] => Percent(info) = 99

TogetherInFlight(r, q) ==
    /\ r # q
    /\ requests[r].store = requests[q].store
    /\ requests[r].key = requests[q].key
    /\ requests[r].phase # "done"
    /\ requests[q].phase # "done"

\* Positions of the terminal notifications of request r after the step.
TerminalsAfter(r) ==
    {i \in 1..Len(notes'[requests[r].cmd]) : Terminal(notes'[requests[r].cmd][i])}

\* C32: while two requests for the same entry are in flight together,
\* neither has more than one terminal notification after any step; the one
\* a step ends has exactly one, with its own requestId, and its origin's
\* load was decremented once for it; and when the step ends the last of the
\* two, the cache holds the payload of one of them under the key.
C32_TwoForOneEntry ==
    [][\A r, q \in 1..Len(requests) :
          TogetherInFlight(r, q) =>
              /\ Cardinality(TerminalsAfter(r)) <= 1
              /\ requests'[r].phase = "done" =>
                    /\ Cardinality(TerminalsAfter(r)) = 1
                    /\ \A i \in TerminalsAfter(r) :
                          notes'[requests[r].cmd][i].requestId = requests[r].clientId
                    /\ records'[requests[r].server].loadValue =
                          records[requests[r].server].loadValue - 1
              /\ (requests'[r].phase = "done" /\ requests'[q].phase = "done") =>
                    filedata'[stores[requests[r].store].name][requests[r].key]
                        \in {Payload(r), Payload(q)}]_vars

\* ------------------------------------------------------------------ C33
\* C33: a GET_RESOURCE whose preferredServer is the empty string is bound
\* to the registered origin with URL '', whatever the load values are.
C33_EmptyStringIsOwnOrigin ==
    [][(/\ DispatchStep
        /\ cmds'[Len(cmds')].preferredServer = ""
        /\ findContentServer(contentServers, records, "") # 0) =>
          requests'[Len(requests')].server =
              findContentServer(contentServers, records, "")]_vars

\* ------------------------------------------------------------------ C34
\* C34: once shutdown() has returned, no step sends a notification for a
\* command that was handled before it, and no step answers the open of a
\* store that was opening then: the client emits no 'progress',
\* 'resource', 'error' or 'ready' for what was pending.
C34_NothingAfterShutdown ==
    [][shut.down =>
          /\ \A c \in 1..shut.cmds : notes'[c] = notes[c]
          /\ \A s \in 1..shut.stores : Opening(s) =>
                \E i \in 1..Len(connQueue'[stores[s].name]) :
                    connQueue'[stores[s].name][i] = s]_vars

\* ------------------------------------------------------------------ C35
\* Requests that were dispatched to the origin with this URL and have not
\* terminated.
InFlightOn(url) ==
    {r \in 1..Len(requests) :
        records[requests[r].server].serverUrl = url /\ ~Terminated(r)}

\* C35: in every reachable state the loadValue of every registered origin
\* is the number of requests dispatched to its URL that have not
\* terminated, also after the origin was removed and registered again.
C35_LoadIsInFlightCount ==
    \A i \in 1..Len(contentServers) :
        records[contentServers[i]].loadValue =
            Cardinality(InFlightOn(records[contentServers[i]].serverUrl))

\* ============================================================== Emitter
\* The listener array of one event holds function objects.  A function
\* is [callback, wrapper]: wrapper 0 is the callback itself, and every
\* once() makes a new function `func` with func.callback = callback.
MaxListeners == 3
MaxOnce == 2
MaxEmits == 2
Callbacks == {1, 2}

\* Array.prototype.indexOf on the listener array: the 1-based position of
\* the first element that is this function, 0 for JavaScript's -1.
indexOf(handler, func) ==
    IF \E i \in 1..Len(handler) : handler[i] = func
    THEN CHOOSE i \in 1..Len(handler) :
            handler[i] = func /\ \A j \in 1..(i - 1) : handler[j] # func
    ELSE 0

\* handler.splice(start, 1) with start = indexOf(...): a start of -1
\* counts from the end of the array.
splice(handler, at) ==
    LET first == IF at = 0 THEN Len(handler) ELSE at
    IN  [i \in 1..(Len(handler) - (IF Len(handler) = 0 THEN 0 ELSE 1)) |->
            IF i < first THEN handler[i] ELSE handler[i + 1]]

\* Emitter.prototype.on(event, callback).
on(callback) ==
    /\ Len(emitter.listeners) < MaxListeners
    /\ emitter' = [emitter EXCEPT
            !.listeners = Append(@, [callback |-> callback, wrapper |-> 0])]
    /\ UNCHANGED <<content, shut, machine, objectList, issued, retired>>

\* Emitter.prototype.once(event, callback).
once(callback) ==
    /\ Len(emitter.listeners) < MaxListeners
    /\ emitter.made < MaxOnce
    /\ emitter' = [emitter EXCEPT
            !.made = @ + 1,
            !.listeners = Append(@, [callback |-> callback, wrapper |-> emitter.made + 1])]
    /\ UNCHANGED <<content, shut, machine, objectList, issued, retired>>

\* Emitter.prototype.removeListener(event, callback), called by the
\* application with one of its callbacks.
removeListener(callback) ==
    /\ emitter' = [emitter EXCEPT
            !.listeners = splice(@, indexOf(@, [callback |-> callback, wrapper |-> 0]))]
    /\ UNCHANGED <<content, shut, machine, objectList, issued, retired>>

\* Emitter.prototype.removeAllListeners(event): the next on() or
\* removeListener() starts from an empty array, and emit() calls nothing.
removeAllListeners ==
    /\ emitter.listeners # <<>>
    /\ emitter' = [emitter EXCEPT !.listeners = <<>>]
    /\ UNCHANGED <<content, shut, machine, objectList, issued, retired>>

\* The loop of emit: `for (i = 0; i < n; ++i) listener[i].call(this)` over
\* the live array, with i counted from 1.  A once() function removes
\* itself and then calls its callback; calling listener[i] past the end of
\* the array throws a TypeError out of emit.
RECURSIVE emitLoop(_, _, _, _)
emitLoop(listener, i, n, calls) ==
    IF i > n THEN [listeners |-> listener, calls |-> calls, threw |-> FALSE]
    ELSE IF i > Len(listener)
         THEN [listeners |-> listener, calls |-> calls, threw |-> TRUE]
    ELSE emitLoop(IF listener[i].wrapper # 0
                  THEN splice(listener, indexOf(listener, listener[i]))
                  ELSE listener,
                  i + 1, n, Append(calls, listener[i]))

\* Emitter.prototype.emit(event).  The record of an emit keeps the array
\* as it was when the emit began, the functions it called in order, and
\* whether it threw.
emit ==
    /\ Len(emitter.emits) < MaxEmits
    /\ LET out == emitLoop(emitter.listeners, 1, Len(emitter.listeners), <<>>)
       IN  emitter' = [emitter EXCEPT
               !.listeners = out.listeners,
               !.emits = Append(@, [before |-> emitter.listeners,
                                    calls |-> out.calls, threw |-> out.threw])]
    /\ UNCHANGED <<content, shut, machine, objectList, issued, retired>>

NextEmitter ==
    \/ \E callback \in Callbacks : on(callback)
    \/ \E callback \in Callbacks : once(callback)
    \/ \E callback \in Callbacks : removeListener(callback)
    \/ removeAllListeners
    \/ emit

SpecEmitter == Init /\ [][NextEmitter]_vars

\* ------------------------------------------------------------------ C36
\* C36: every emit has called the functions that were in the listener
\* array when it began, once each and in registration order, without
\* throwing; and no once() function has been called by two emits.
C36_EveryListenerOnce ==
    /\ \A e \in 1..Len(emitter.emits) :
          /\ emitter.emits[e].calls = emitter.emits[e].before
          /\ ~emitter.emits[e].threw
    /\ \A e, f \in 1..Len(emitter.emits) :
          \A i \in 1..Len(emitter.emits[e].calls), j \in 1..Len(emitter.emits[f].calls) :
              (/\ emitter.emits[e].calls[i].wrapper # 0
               /\ emitter.emits[e].calls[i] = emitter.emits[f].calls[j]) => e = f

\* ------------------------------------------------------------------ C37
\* The listener array holds a listener of this callback, registered with
\* on() or with once().
Listens(handler, callback) ==
    \E i \in 1..Len(handler) : handler[i].callback = callback

\* The array without its element at position i.
Without(handler, i) ==
    [j \in 1..(Len(handler) - 1) |-> IF j < i THEN handler[j] ELSE handler[j + 1]]

\* C37: removeListener with a callback that has no listener in the array
\* leaves the array as it was, and with a callback that has one it takes
\* out one listener of that callback and nothing else.
C37_RemoveOnlyRegistered ==
    [][\A callback \in Callbacks :
          removeListener(callback) =>
              IF Listens(emitter.listeners, callback)
              THEN \E i \in 1..Len(emitter.listeners) :
                      /\ emitter.listeners[i].callback = callback
                      /\ emitter.listeners' = Without(emitter.listeners, i)
              ELSE emitter.listeners' = emitter.listeners]_vars

\* ======================================================== state machine
MaxEvents == 2
MaxSteps == 3
StateIds == {0, 1}
Events == {1, 2}

\* eventQueue[i], with i counted from 0: an empty slot reads as Null.
Slot(queue, i) == IF i + 1 <= Len(queue) THEN queue[i + 1] ELSE Null

\* eventQueue[i] = value, for a slot written before or the first that
\* was not.
SetSlot(queue, i, value) ==
    IF i + 1 <= Len(queue) THEN [queue EXCEPT ![i + 1] = value]
    ELSE Append(queue, value)

\* A call of a state's function.
Call(name, stateId, ev) == [call |-> name, state |-> stateId, ev |-> ev]

\* stateMachinePostEvent(stateMachine, ev).
stateMachinePostEvent(ev) ==
    /\ machine.pc = "idle"
    /\ machine.eventCount < MaxEvents
    /\ machine' = [machine EXCEPT
            !.eventQueue = SetSlot(@, machine.eventCount, ev),
            !.eventCount = @ + 1]
    /\ UNCHANGED <<content, shut, emitter, objectList, issued, retired>>

\* stateMachineFlushQueue(stateMachine).
stateMachineFlushQueue ==
    /\ machine.pc = "idle"
    /\ machine.eventCount > 0
    /\ machine' = [machine EXCEPT
            !.eventQueue = [i \in 1..Len(@) |-> Null],
            !.eventCount = 0]
    /\ UNCHANGED <<content, shut, emitter, objectList, issued, retired>>

\* stateMachineUpdate up to its loop: the default state is entered when
\* there is no current state.
stateMachineUpdate_begin ==
    /\ machine.pc = "idle"
    /\ machine' = [machine EXCEPT
            !.pc = "loop",
            !.eventIndex = 0,
            !.currentState = IF @ = Null THEN machine.defaultState ELSE @,
            !.trace = IF machine.currentState = Null
                      THEN <<Call("enter", machine.defaultState, Null)>>
                      ELSE <<>>]
    /\ UNCHANGED <<content, shut, emitter, objectList, issued, retired>>

\* The calls of one pass of the inner loop whose processEvent returned
\* stateId1 in state stateId0.
dispatchCalls(stateId0, stateId1, ev) ==
    <<Call("processEvent", stateId0, ev)>>
    \o (IF stateId0 # stateId1
        THEN <<Call("leave", stateId0, Null), Call("enter", stateId1, Null)>>
        ELSE <<>>)
    \o <<Call("update", stateId1, Null)>>

\* A pass that calls the new state's enter before the old state's leave.
stateMachineUpdate_dispatch_EnterFirst(stateId1) ==
    /\ machine.pc = "loop"
    /\ machine.eventCount > 0
    /\ machine.eventIndex < MaxSteps
    /\ machine' = [machine EXCEPT
            !.eventQueue = SetSlot(@, machine.eventIndex, Null),
            !.eventIndex = @ + 1,
            !.trace = @ \o <<Call("processEvent", machine.currentState,
                                  Slot(machine.eventQueue, machine.eventIndex))>>
                        \o (IF machine.currentState # stateId1
                            THEN <<Call("enter", stateId1, Null),
                                   Call("leave", machine.currentState, Null)>>
                            ELSE <<>>)
                        \o <<Call("update", stateId1, Null)>>,
            !.currentState = stateId1]
    /\ UNCHANGED <<content, shut, emitter, objectList, issued, retired>>

\* One pass of the inner loop of stateMachineUpdate.  Its test is
\* `stateId0 === stateId1 && stateMachine.eventCount > 0`, and stateId0 is
\* stateId1 whenever it is evaluated: at the top of the outer loop and
\* after the swap that ends a pass.  stateId1 is what processEvent
\* returns.
stateMachineUpdate_dispatch(stateId1) ==
    /\ machine.pc = "loop"
    /\ machine.eventCount > 0
    /\ machine.eventIndex < MaxSteps
    /\ machine' = [machine EXCEPT
            !.eventQueue = SetSlot(@, machine.eventIndex, Null),
            !.eventIndex = @ + 1,
            !.trace = @ \o dispatchCalls(machine.currentState, stateId1,
                                         Slot(machine.eventQueue, machine.eventIndex)),
            !.currentState = stateId1]
    /\ UNCHANGED <<content, shut, emitter, objectList, issued, retired>>

\* The inner loop's test fails, the outer loop ends and stateMachineUpdate
\* returns.
stateMachineUpdate_return ==
    /\ machine.pc = "loop"
    /\ machine.eventCount = 0
    /\ machine' = [machine EXCEPT !.pc = "idle", !.eventCount = 0]
    /\ UNCHANGED <<content, shut, emitter, objectList, issued, retired>>

NextMachine ==
    \/ \E ev \in Events : stateMachinePostEvent(ev)
    \/ stateMachineFlushQueue
    \/ stateMachineUpdate_begin
    \/ \E stateId1 \in StateIds : stateMachineUpdate_dispatch(stateId1)
    \/ stateMachineUpdate_return

SpecMachine == Init /\ [][NextMachine]_vars

\* ------------------------------------------------------------------ C38
\* The events stateMachineUpdate has passed to processEvent, in order.
Passed ==
    LET at == {i \in 1..Len(machine.trace) : machine.trace[i].call = "processEvent"}
        nth[k \in 0..Cardinality(at)] ==
            IF k = 0 THEN <<>>
            ELSE LET i == CHOOSE i \in at : Cardinality({j \in at : j <= i}) = k
                 IN  Append(nth[k - 1], machine.trace[i].ev)
    IN  nth[Cardinality(at)]

\* C38: a running stateMachineUpdate has passed no empty slot to
\* processEvent and no more events than were posted, and once the posted
\* events have all been passed the next step is its return, with
\* eventCount 0.
C38_UpdateTerminates ==
    /\ [](machine.pc = "loop" =>
            /\ Len(Passed) <= machine.eventCount
            /\ \A k \in 1..Len(Passed) : Passed[k] # Null)
    /\ [][(machine.pc = "loop" /\ Len(Passed) = machine.eventCount) =>
            (machine'.pc = "idle" /\ machine'.eventCount = 0)]_vars

\* ------------------------------------------------------------------ C39
IsMove(c) == c.call \in {"leave", "enter"}

\* The leave and enter calls a step adds to the trace of the update.
MovesOfStep ==
    SelectSeq(SubSeq(machine'.trace, Len(machine.trace) + 1, Len(machine'.trace)), IsMove)

\* C39: a pass whose processEvent returns another id than the current
\* state's calls the old state's leave and then the new state's enter, once
\* each, and makes the returned id the current state; a pass whose
\* processEvent returns the current id calls neither; and the start of an
\* update with no current state calls the default state's enter once,
\* before any processEvent, while any other start calls nothing.
C39_LeaveThenEnter ==
    [][/\ \A stateId1 \in StateIds :
             stateMachineUpdate_dispatch(stateId1) =>
                 /\ MovesOfStep =
                       IF stateId1 # machine.currentState
                       THEN <<Call("leave", machine.currentState, Null),
                              Call("enter", stateId1, Null)>>
                       ELSE <<>>
                 /\ machine'.currentState = stateId1
       /\ stateMachineUpdate_begin =>
             machine'.trace =
                 IF machine.currentState = Null
                 THEN <<Call("enter", machine.defaultState, Null)>>
                 ELSE <<>>]_vars

\* An update that entered the default state, then had a processEvent
\* return the current id and a later one return another id.
C39_Witness ==
    /\ Len(machine.trace) >= 7
    /\ machine.trace[1] = Call("enter", machine.defaultState, Null)
    /\ machine.trace[2].call = "processEvent"
    /\ machine.trace[3].call = "update"
    /\ machine.trace[4].call = "processEvent"
    /\ machine.trace[5].call = "leave"
    /\ machine.trace[6].call = "enter"
    /\ machine.currentState = machine.trace[6].state

\* ========================================================== object list
\* An object is modelled by its id field.
MaxAllocations == 6

\* id & list.INDEX_MASK, for MAX_OBJECTS a power of two and id >= 0.
IndexOfId(list, id) == id % list.MAX_OBJECTS

\* objectListHas(list, id).
objectListHas(list, id) ==
    LET ind == list.indices[IndexOfId(list, id)]
    IN  ind.id = id /\ ind.index # NoIndex

\* objectListGet(list, id), for an id whose slot holds an index.
objectListGet(list, id) ==
    list.objects[list.indices[IndexOfId(list, id)].index]

\* The list after an allocate that found room, with NEW_ID_ADD added to
\* the id of the slot or not.
Allocated(list, add) ==
    LET tail == list.fifoTail
        ind  == list.indices[tail]
    IN  [list EXCEPT
            !.fifoTail = ind.next,
            !.indices[tail] = [ind EXCEPT !.id = @ + add, !.index = list.count],
            !.count = @ + 1,
            !.objects[list.count] = ind.id + add]

\* An allocate that hands out the id of the slot as it is.
objectListAllocate_SameId ==
    /\ Cardinality(issued) + Cardinality(retired) < MaxAllocations
    /\ IF objectList.count < objectList.MAX_OBJECTS - 1
       THEN /\ objectList' = Allocated(objectList, 0)
            /\ issued' = issued \cup {objectList.indices[objectList.fifoTail].id}
       ELSE UNCHANGED <<objectList, issued>>
    /\ UNCHANGED <<content, shut, emitter, machine, retired>>

\* objectListAllocate(list, args): the object returned has the new id of
\* the slot; null is returned, and nothing changes, when count is
\* MAX_OBJECTS - 1.
objectListAllocate ==
    /\ Cardinality(issued) + Cardinality(retired) < MaxAllocations
    /\ IF objectList.count < objectList.MAX_OBJECTS - 1
       THEN /\ objectList' = Allocated(objectList, objectList.NEW_ID_ADD)
            /\ issued' = issued \cup
                  {objectList.indices[objectList.fifoTail].id + objectList.NEW_ID_ADD}
       ELSE UNCHANGED <<objectList, issued>>
    /\ UNCHANGED <<content, shut, emitter, machine, retired>>

\* objectListDelete(list, id), for an id objectListAllocate returned and
\* no delete has taken.  The assignments are applied in the order of the
\* code.
objectListDelete(id) ==
    /\ id \in issued
    /\ LET idi  == IndexOfId(objectList, id)
           end  == objectList.count - 1
           ind  == objectList.indices[idi]
           obj  == objectList.objects[end]
           idl  == IndexOfId(objectList, obj)
           l1   == [objectList EXCEPT !.objects[end] = Null]
           l2   == [l1 EXCEPT !.objects[ind.index] = obj]
           l3   == [l2 EXCEPT !.indices[idl].index = ind.index]
           l4   == [l3 EXCEPT !.indices[idi].index = NoIndex]
           l5   == [l4 EXCEPT !.indices[l4.fifoHead].next = idi]
       IN  objectList' = [l5 EXCEPT !.fifoHead = idi, !.count = end]
    /\ issued' = issued \ {id}
    /\ retired' = retired \cup {id}
    /\ UNCHANGED <<content, shut, emitter, machine>>

\* Ids a caller may ask objectListHas about.
CandidateIds == 0..(2^ListBits * (MaxAllocations + 2) - 1)

NextList ==
    \/ objectListAllocate
    \/ \E id \in CandidateIds : objectListDelete(id)

SpecList == Init /\ [][NextList]_vars

\* ------------------------------------------------------------------ C40
\* C40: objectListHas is true exactly of the ids an allocate returned and
\* no delete has taken; no id a delete has taken is valid again, whatever
\* its slot holds now; objectListGet of a valid id is the object with
\* that id; and the number of valid ids is list.count, at most
\* MAX_OBJECTS - 1.
C40_ValidIds ==
    /\ \A id \in CandidateIds : objectListHas(objectList, id) <=> id \in issued
    /\ issued \cap retired = {}
    /\ \A id \in issued : objectListGet(objectList, id) = id
    /\ Cardinality(issued) = objectList.count
    /\ objectList.count <= objectList.MAX_OBJECTS - 1

\* The list is at its limit, and a valid id lives in the slot of an id
\* that was deleted.
C40_Witness ==
    /\ objectList.count = objectList.MAX_OBJECTS - 1
    /\ \E id \in issued, old \in retired :
          IndexOfId(objectList, id) = IndexOfId(objectList, old)

====
